---- MODULE Spec2Model ----
(***************************************************************************)
(* LEARN-INDEX: the Change-Set Resolver (getGitDiff), the Sync Reconciler  *)
(* (syncToNotion), the Duplicate Detector (checkDuplicates), the URL       *)
(* Liveness Checker (validateUrl), the Validation Orchestrator (runTests)  *)
(* and the fetch loop of the Remote Index (getExistingPages).              *)
(*                                                                         *)
(* Six specifications share this module, one per component:                *)
(*   SpecDiff  getGitDiff, one step per line of `git diff --name-status`   *)
(*   SpecSync  syncToNotion, one step per await, run up to MaxRuns times   *)
(*   SpecDup   checkDuplicates applied to a bounded corpus                 *)
(*   SpecUrl   validateAllUrls, one step per URL of a record               *)
(*   SpecVal   runTests, one step per file and per flagged file            *)
(*   SpecFetch getExistingPages, one step per page of the store's answer   *)
(* The variables of the components a specification does not run stay at    *)
(* their idle values.                                                      *)
(***************************************************************************)
EXTENDS Integers, Sequences, FiniteSets, TLC

VARIABLES
    \* the two revisions and the output of `git diff --name-status HEAD^ HEAD`
    prevSnap, headSnap, stdout,
    \* getGitDiff
    dpc, lineIdx, added, deleted, modified,
    \* syncToNotion
    remoteIndex, pc, run, jsonFiles, existingPages, DIFFS, di, fi,
    counts, calls, logs, exitCode,
    \* checkDuplicates
    resources, duplicateErrors, dupPc,
    \* validateAllUrls
    urlContent, ui, urlErrors, urlWarnings, requests, urlPc,
    \* runTests
    skipUrlCheck, corpus, vi, results, passCount, failCount, warningCount,
    valExit, valPc,
    \* getExistingPages
    store, hasMore, startCursor, fetchLog, fetchPc

inputVars == <<prevSnap, headSnap, stdout>>
diffVars == <<dpc, lineIdx, added, deleted, modified>>
syncVars == <<remoteIndex, pc, run, jsonFiles, existingPages, DIFFS, di, fi,
              counts, calls, logs, exitCode>>
dupVars == <<resources, duplicateErrors, dupPc>>
urlVars == <<urlContent, ui, urlErrors, urlWarnings, requests, urlPc>>
valVars == <<skipUrlCheck, corpus, vi, results, passCount, failCount, warningCount,
             valExit, valPc>>
fetchVars == <<store, hasMore, startCursor, fetchLog, fetchPc>>
restVars == <<urlVars, valVars, fetchVars>>
vars == <<inputVars, diffVars, syncVars, dupVars, restVars>>

----------------------------------------------------------------------------
(* Bounds *)

\* extra lines of the diff (paths that are not record files, renames)
MaxExtra == 1
\* how many times in a row the sync is run on the same inputs
MaxRuns == 2
\* files given to the Duplicate Detector
MaxFiles == 3

----------------------------------------------------------------------------
(* Records, snapshots and the text of the diff *)

\* the `name` of a record; Map.get and Array.includes compare names exactly
Names == {"Foo", "Bar"}

\* content that cannot be read as a record (JSON.parse or file.json() throws)
BAD == "<malformed>"
\* no file at that path in that revision (`git show` exits non-zero)
ABSENT == "<absent>"
\* what destructuring yields for a missing element
Undefined == "<undefined>"

SnapContents == Names \cup {BAD, ABSENT}

\* A path is the sequence of its whitespace-separated words: a path without
\* whitespace is one word, "sites/my file.json" is two.
PathA == <<"sites/a.json">>
PathB == <<"sites/b.json">>
PathW == <<"sites/my", "file.json">>

\* readdir order of the record files
SitePathOrder == <<PathA, PathB, PathW>>

\* String.prototype.startsWith("sites/") on the words of the model
StartsWithSites(word) ==
    word \in {"sites/a.json", "sites/b.json", "sites/my", "sites/notes.txt",
              "sites/c.json", "sites/d.json"}

\* String.prototype.endsWith(".json") on the words of the model
EndsWithJson(word) ==
    word \in {"sites/a.json", "sites/b.json", "file.json", "docs/x.json",
              "sites/c.json", "sites/d.json"}

\* a line of the diff is the sequence of its whitespace-separated words:
\* the status letter, then the words of the path (two paths for a rename)
DiffLineOf(status, path) == <<status>> \o path

\* changed paths that are no record file, and a detected rename
ExtraLines ==
    { <<"M", "README.md">>, <<"A", "docs/x.json">>, <<"M", "sites/notes.txt">>,
      <<"R100", "sites/c.json", "sites/d.json">> }

\* the status git reports for one path of the two revisions ("" for none);
\* `touched` holds the paths whose content changed although the name did not
StatusOf(p, prev, head, touched) ==
    IF prev[p] = ABSENT /\ head[p] = ABSENT THEN ""
    ELSE IF prev[p] = ABSENT THEN "A"
    ELSE IF head[p] = ABSENT THEN "D"
    ELSE IF prev[p] # head[p] \/ p \in touched THEN "M"
    ELSE ""

RECURSIVE NameStatus(_, _, _, _)
NameStatus(order, prev, head, touched) ==
    IF order = <<>> THEN <<>>
    ELSE LET p == Head(order)
             s == IF p \in DOMAIN head THEN StatusOf(p, prev, head, touched) ELSE ""
             rest == NameStatus(Tail(order), prev, head, touched)
         IN IF s = "" THEN rest ELSE <<DiffLineOf(s, p)>> \o rest

\* sequences without repetition of at most n elements of S
DistinctSeqs(S, n) ==
    { s \in UNION { [1..k -> S] : k \in 0..n } :
        \A i, j \in DOMAIN s : i # j => s[i] # s[j] }

\* stdout of the diff command: one line per changed path, each ended by a newline,
\* so that splitting on "\n" leaves an empty last element
GitDiffStdout(prev, head, touched, extras) ==
    NameStatus(SitePathOrder, prev, head, touched) \o extras \o << <<>> >>

\* the revision pairs over the record paths P with at most n extra lines
InitInputs(P, n) ==
    /\ prevSnap \in [P -> SnapContents]
    /\ headSnap \in [P -> SnapContents]
    /\ \E touched \in SUBSET P, extras \in DistinctSeqs(ExtraLines, n) :
        /\ \A p \in touched : prevSnap[p] \notin {ABSENT} /\ headSnap[p] \notin {ABSENT}
        /\ \A p \in touched : prevSnap[p] = headSnap[p]
        /\ stdout = GitDiffStdout(prevSnap, headSnap, touched, extras)

----------------------------------------------------------------------------
(* getGitDiff *)

\* stdout.split("\n").filter((line) => line.trim() !== "")
Lines(out) == SelectSeq(out, LAMBDA line : line # <<>>)

\* `git show <rev>:<filePath>` followed by JSON.parse(content).name:
\* the name, or BAD when either throws
ShowName(snap, filePath) ==
    IF <<filePath>> \in DOMAIN snap /\ snap[<<filePath>>] \in Names
    THEN snap[<<filePath>>]
    ELSE BAD

EmptyDiff == [added |-> <<>>, deleted |-> <<>>, modified |-> <<>>]

\* diffLine without the test of what was read: a failed read appends a name
diffLineKeepsFailedRead(acc, line, prev, head) ==
    LET status == line[1]
        filePath == IF Len(line) >= 2 THEN line[2] ELSE Undefined
    IN IF filePath # Undefined /\ StartsWithSites(filePath) /\ EndsWithJson(filePath)
       THEN IF status = "A"
            THEN [acc EXCEPT !.added = Append(@, ShowName(head, filePath))]
            ELSE IF status = "D"
            THEN [acc EXCEPT !.deleted = Append(@, ShowName(prev, filePath))]
            ELSE IF status = "M"
            THEN [acc EXCEPT !.modified = Append(@, ShowName(head, filePath))]
            ELSE acc
       ELSE acc

\* the body of the loop over the lines, try/catch included
diffLine(acc, line, prev, head) ==
    LET status == line[1]
        filePath == IF Len(line) >= 2 THEN line[2] ELSE Undefined
    IN IF filePath # Undefined /\ StartsWithSites(filePath) /\ EndsWithJson(filePath)
       THEN IF status = "A"
            THEN LET name == ShowName(head, filePath)
                 IN IF name = BAD THEN acc
                    ELSE [acc EXCEPT !.added = Append(@, name)]
            ELSE IF status = "D"
            THEN LET name == ShowName(prev, filePath)
                 IN IF name = BAD THEN acc
                    ELSE [acc EXCEPT !.deleted = Append(@, name)]
            ELSE IF status = "M"
            THEN LET name == ShowName(head, filePath)
                 IN IF name = BAD THEN acc
                    ELSE [acc EXCEPT !.modified = Append(@, name)]
            ELSE acc
       ELSE acc

RECURSIVE diffLines(_, _, _, _)
diffLines(acc, lines, prev, head) ==
    IF lines = <<>> THEN acc
    ELSE diffLines(diffLine(acc, Head(lines), prev, head), Tail(lines), prev, head)

\* the value getGitDiff resolves to when the diff command succeeds
getGitDiff(out, prev, head) == diffLines(EmptyDiff, Lines(out), prev, head)

DiffIdle ==
    /\ dpc = "idle" /\ lineIdx = 0
    /\ added = <<>> /\ deleted = <<>> /\ modified = <<>>

\* const { stdout } = await execAsync(diffCommand), and the three empty lists
DiffExec ==
    /\ dpc = "start"
    /\ dpc' = "loop"
    /\ lineIdx' = 1
    /\ added' = <<>> /\ deleted' = <<>> /\ modified' = <<>>
    /\ UNCHANGED <<inputVars, restVars, syncVars, dupVars>>

\* the diff command exits non-zero (no HEAD^, not a work tree): getGitDiff rejects
DiffExecFail ==
    /\ dpc = "start"
    /\ dpc' = "threw"
    /\ UNCHANGED <<lineIdx, added, deleted, modified, inputVars, restVars, syncVars, dupVars>>

\* one iteration of `for (const line of lines)`
DiffLine ==
    /\ dpc = "loop"
    /\ lineIdx <= Len(Lines(stdout))
    /\ LET r == diffLine([added |-> added, deleted |-> deleted, modified |-> modified],
                         Lines(stdout)[lineIdx], prevSnap, headSnap)
       IN /\ added' = r.added
          /\ deleted' = r.deleted
          /\ modified' = r.modified
    /\ lineIdx' = lineIdx + 1
    /\ UNCHANGED <<dpc, inputVars, restVars, syncVars, dupVars>>

\* return { added, deleted, modified }
DiffReturn ==
    /\ dpc = "loop"
    /\ lineIdx > Len(Lines(stdout))
    /\ dpc' = "done"
    /\ UNCHANGED <<lineIdx, added, deleted, modified, inputVars, restVars, syncVars, dupVars>>

----------------------------------------------------------------------------
(* syncToNotion *)

\* opaque page ids of the remote store; an id is a non-empty string
Ids == {"id1", "id2"}
NoId == "<none>"

\* what the store's query returns: name -> page id, one page per name
RemoteIndexes ==
    { f \in UNION { [S -> Ids] : S \in SUBSET Names } :
        \A m, n \in DOMAIN f : m # n => f[m] # f[n] }

ZeroCounts == [created |-> 0, updated |-> 0, deleted |-> 0, errors |-> 0]

\* getAllJsonFiles(sitesDir): the record files of the checked-out revision
getAllJsonFiles(head) ==
    SelectSeq(SitePathOrder, LAMBDA p : p \in DOMAIN head /\ head[p] # ABSENT)

\* Array.prototype.includes
Includes(list, x) == \E i \in DOMAIN list : list[i] = x

\* Map.prototype.get followed by the truthiness test `if (existingPageId)`
HasPage(pages, name) == name \in DOMAIN pages

Tally(c, field) == IF field = "none" THEN c ELSE [c EXCEPT ![field] = @ + 1]

\* deleteOutcome with a missing page counted as an error
deleteOutcomeMissingIsError(deletedName, pages, ok) ==
    IF HasPage(pages, deletedName)
    THEN [call |-> <<[op |-> "archive", name |-> deletedName,
                      id |-> pages[deletedName], ok |-> ok]>>,
          tally |-> IF ok THEN "deleted" ELSE "errors",
          log |-> IF ok THEN [kind |-> "Deleted", what |-> deletedName]
                  ELSE [kind |-> "Error deleting", what |-> deletedName]]
    ELSE [call |-> <<>>,
          tally |-> "errors",
          log |-> [kind |-> "Error deleting", what |-> deletedName]]

\* The body of `for (const deletedName of DIFFS.deleted)`, try/catch included;
\* ok tells whether the remote call, if one is made, succeeds.
deleteOutcome(deletedName, pages, ok) ==
    IF HasPage(pages, deletedName)
    THEN [call |-> <<[op |-> "archive", name |-> deletedName,
                      id |-> pages[deletedName], ok |-> ok]>>,
          tally |-> IF ok THEN "deleted" ELSE "errors",
          log |-> IF ok THEN [kind |-> "Deleted", what |-> deletedName]
                  ELSE [kind |-> "Error deleting", what |-> deletedName]]
    ELSE [call |-> <<>>,
          tally |-> "none",
          log |-> [kind |-> "Page not found for deletion", what |-> deletedName]]

\* fileOutcome with the decision of the earlier variant of the script: the
\* remote id is looked at first, and a record is created only without one
fileOutcomeIdFirst(filePath, content, diffs, pages, ok) ==
    IF content = BAD
    THEN [call |-> <<>>, tally |-> "errors",
          log |-> <<[kind |-> "Error processing", what |-> filePath]>>]
    ELSE IF HasPage(pages, content)
    THEN IF Includes(diffs.modified, content)
         THEN [call |-> <<[op |-> "update", name |-> content,
                           id |-> pages[content], ok |-> ok]>>,
               tally |-> IF ok THEN "updated" ELSE "errors",
               log |-> IF ok THEN <<[kind |-> "Updated", what |-> content]>>
                       ELSE <<[kind |-> "Error processing", what |-> filePath]>>]
         ELSE IF Includes(diffs.deleted, content)
         THEN [call |-> <<[op |-> "archive", name |-> content,
                           id |-> pages[content], ok |-> ok]>>,
               tally |-> IF ok THEN "deleted" ELSE "errors",
               log |-> IF ok THEN <<[kind |-> "Deleted", what |-> content]>>
                       ELSE <<[kind |-> "Error processing", what |-> filePath]>>]
         ELSE [call |-> <<>>, tally |-> "none", log |-> <<>>]
    ELSE IF Includes(diffs.added, content)
    THEN [call |-> <<[op |-> "create", name |-> content, id |-> NoId, ok |-> ok]>>,
          tally |-> IF ok THEN "created" ELSE "errors",
          log |-> IF ok THEN <<[kind |-> "Created", what |-> content]>>
                  ELSE <<[kind |-> "Error processing", what |-> filePath]>>]
    ELSE [call |-> <<>>, tally |-> "none",
          log |-> <<[kind |-> "Unexpected state found", what |-> content]>>]

\* The body of `for (const filePath of jsonFiles)`, try/catch included;
\* content is what loadResource finds in the file.
fileOutcome(filePath, content, diffs, pages, ok) ==
    IF content = BAD
    THEN [call |-> <<>>, tally |-> "errors",
          log |-> <<[kind |-> "Error processing", what |-> filePath]>>]
    ELSE IF Includes(diffs.added, content)
    THEN [call |-> <<[op |-> "create", name |-> content, id |-> NoId, ok |-> ok]>>,
          tally |-> IF ok THEN "created" ELSE "errors",
          log |-> IF ok THEN <<[kind |-> "Created", what |-> content]>>
                  ELSE <<[kind |-> "Error processing", what |-> filePath]>>]
    ELSE IF Includes(diffs.modified, content) /\ HasPage(pages, content)
    THEN [call |-> <<[op |-> "update", name |-> content,
                      id |-> pages[content], ok |-> ok]>>,
          tally |-> IF ok THEN "updated" ELSE "errors",
          log |-> IF ok THEN <<[kind |-> "Updated", what |-> content]>>
                  ELSE <<[kind |-> "Error processing", what |-> filePath]>>]
    ELSE [call |-> <<>>, tally |-> "none", log |-> <<>>]

SyncIdle ==
    /\ remoteIndex = <<>> /\ pc = "idle" /\ run = 0 /\ jsonFiles = <<>>
    /\ existingPages = <<>> /\ DIFFS = EmptyDiff /\ di = 0 /\ fi = 0
    /\ counts = ZeroCounts /\ calls = <<>> /\ logs = <<>> /\ exitCode = -1

\* const jsonFiles = await getAllJsonFiles(sitesDir)
SyncEnumerate ==
    /\ pc = "start"
    /\ jsonFiles' = getAllJsonFiles(headSnap)
    /\ pc' = "query"
    /\ UNCHANGED <<remoteIndex, run, existingPages, DIFFS, di, fi, counts, calls,
                   logs, exitCode, inputVars, restVars, diffVars, dupVars>>

\* const existingPages = await getExistingPages(), and the four counters
SyncQuery ==
    /\ pc = "query"
    /\ existingPages' = remoteIndex
    /\ counts' = ZeroCounts
    /\ pc' = "diff"
    /\ UNCHANGED <<remoteIndex, run, jsonFiles, DIFFS, di, fi, calls, logs,
                   exitCode, inputVars, restVars, diffVars, dupVars>>

\* the rejection of syncToNotion() reaches the handler of the last lines:
\* console.error("Sync failed:", error); process.exit(1)
SyncFailed(what) ==
    /\ pc' = "failed"
    /\ logs' = Append(logs, [kind |-> "Sync failed", what |-> what])
    /\ exitCode' = 1
    /\ UNCHANGED <<remoteIndex, run, jsonFiles, existingPages, DIFFS, di, fi,
                   counts, calls, inputVars, restVars, diffVars, dupVars>>

\* SyncQueryFail with the failure caught and counted, the sync going on with
\* an empty index
SyncQueryFailCaught ==
    /\ pc = "query"
    /\ existingPages' = <<>>
    /\ counts' = [ZeroCounts EXCEPT !.errors = 1]
    /\ logs' = Append(logs, [kind |-> "Query failed", what |-> "getExistingPages"])
    /\ pc' = "diff"
    /\ UNCHANGED <<remoteIndex, run, jsonFiles, DIFFS, di, fi, calls,
                   exitCode, inputVars, restVars, diffVars, dupVars>>

\* getExistingPages throws (the response is not ok, or fetch rejects)
SyncQueryFail ==
    /\ pc = "query"
    /\ SyncFailed("getExistingPages")

\* const DIFFS = await getGitDiff()
SyncDiff ==
    /\ pc = "diff"
    /\ DIFFS' = getGitDiff(stdout, prevSnap, headSnap)
    /\ di' = 1
    /\ pc' = "deleting"
    /\ UNCHANGED <<remoteIndex, run, jsonFiles, existingPages, fi, counts, calls,
                   logs, exitCode, inputVars, restVars, diffVars, dupVars>>

\* the diff command fails: getGitDiff rejects
SyncDiffFail ==
    /\ pc = "diff"
    /\ SyncFailed("getGitDiff")

\* one iteration of the loop over DIFFS.deleted
SyncDelete ==
    /\ pc = "deleting"
    /\ di <= Len(DIFFS.deleted)
    /\ \E ok \in BOOLEAN :
        LET o == deleteOutcome(DIFFS.deleted[di], existingPages, ok)
        IN /\ calls' = calls \o o.call
           /\ counts' = Tally(counts, o.tally)
           /\ logs' = Append(logs, o.log)
    /\ di' = di + 1
    /\ UNCHANGED <<remoteIndex, pc, run, jsonFiles, existingPages, DIFFS, fi,
                   exitCode, inputVars, restVars, diffVars, dupVars>>

\* the loop over DIFFS.deleted ends, the loop over jsonFiles begins
SyncDeleteDone ==
    /\ pc = "deleting"
    /\ di > Len(DIFFS.deleted)
    /\ pc' = "processing"
    /\ fi' = 1
    /\ UNCHANGED <<remoteIndex, run, jsonFiles, existingPages, DIFFS, di, counts,
                   calls, logs, exitCode, inputVars, restVars, diffVars, dupVars>>

\* SyncFile without its try/catch: the first failure rejects the whole run
SyncFileNoCatch ==
    /\ pc = "processing"
    /\ fi <= Len(jsonFiles)
    /\ \E ok \in BOOLEAN :
        LET o == fileOutcome(jsonFiles[fi], headSnap[jsonFiles[fi]], DIFFS,
                             existingPages, ok)
        IN /\ calls' = calls \o o.call
           /\ IF o.tally = "errors"
              THEN /\ pc' = "failed"
                   /\ exitCode' = 1
                   /\ counts' = counts
                   /\ logs' = Append(logs, [kind |-> "Sync failed", what |-> "record"])
              ELSE /\ pc' = pc
                   /\ exitCode' = exitCode
                   /\ counts' = Tally(counts, o.tally)
                   /\ logs' = logs \o o.log
    /\ fi' = fi + 1
    /\ UNCHANGED <<remoteIndex, run, jsonFiles, existingPages, DIFFS, di,
                   inputVars, restVars, diffVars, dupVars>>

\* one iteration of the loop over jsonFiles
SyncFile ==
    /\ pc = "processing"
    /\ fi <= Len(jsonFiles)
    /\ \E ok \in BOOLEAN :
        LET o == fileOutcome(jsonFiles[fi], headSnap[jsonFiles[fi]], DIFFS,
                             existingPages, ok)
        IN /\ calls' = calls \o o.call
           /\ counts' = Tally(counts, o.tally)
           /\ logs' = logs \o o.log
    /\ fi' = fi + 1
    /\ UNCHANGED <<remoteIndex, pc, run, jsonFiles, existingPages, DIFFS, di,
                   exitCode, inputVars, restVars, diffVars, dupVars>>

\* the "Sync complete" report; the process then ends with status 0
SyncReport ==
    /\ pc = "processing"
    /\ fi > Len(jsonFiles)
    /\ pc' = "done"
    /\ logs' = Append(logs, [kind |-> "Sync complete", what |-> counts])
    /\ exitCode' = 0
    /\ UNCHANGED <<remoteIndex, run, jsonFiles, existingPages, DIFFS, di, fi,
                   counts, calls, inputVars, restVars, diffVars, dupVars>>

\* the sync is started again on the same revisions and the same remote index
SyncRerun ==
    /\ pc \in {"done", "failed"}
    /\ run < MaxRuns
    /\ run' = run + 1
    /\ pc' = "start"
    /\ jsonFiles' = <<>>
    /\ existingPages' = <<>>
    /\ DIFFS' = EmptyDiff
    /\ di' = 0 /\ fi' = 0
    /\ counts' = ZeroCounts
    /\ calls' = <<>>
    /\ logs' = <<>>
    /\ exitCode' = -1
    /\ UNCHANGED <<remoteIndex, inputVars, restVars, diffVars, dupVars>>

DupIdle == resources = <<>> /\ duplicateErrors = <<>> /\ dupPc = "idle"

----------------------------------------------------------------------------
(* checkDuplicates *)

\* Strings the detector transforms are sequences of characters.
NameStrings == { <<"a">>, <<"A">>, <<"b">> }
UrlStrings == { <<"u">>, <<"U", "/">>, <<"v">> }

\* the files of the corpus
Files == 1..MaxFiles

LowerChar(c) == CASE c = "A" -> "a" [] c = "U" -> "u" [] OTHER -> c

\* String.prototype.toLowerCase
toLowerCase(str) == [i \in DOMAIN str |-> LowerChar(str[i])]

\* str.replace(/\/$/, "")
StripTrailingSlash(str) ==
    IF str # <<>> /\ str[Len(str)] = "/" THEN SubSeq(str, 1, Len(str) - 1) ELSE str

\* content.url.toLowerCase().replace(/\/$/, "")
normalizedUrl(url) == StripTrailingSlash(toLowerCase(url))

\* A Map is the sequence of its entries in insertion order.
MapHas(map, key) == \E i \in DOMAIN map : map[i].key = key
MapIndex(map, key) == CHOOSE i \in DOMAIN map : map[i].key = key
MapGet(map, key) == map[MapIndex(map, key)].val
MapSet(map, key, val) ==
    IF MapHas(map, key)
    THEN [map EXCEPT ![MapIndex(map, key)].val = val]
    ELSE Append(map, [key |-> key, val |-> val])

\* if (map.has(key)) map.get(key).push(filePath); else map.set(key, [filePath])
Group(map, key, filePath) ==
    IF MapHas(map, key)
    THEN MapSet(map, key, Append(MapGet(map, key), filePath))
    ELSE MapSet(map, key, <<filePath>>)

\* the loop that fills nameMap and urlMap
RECURSIVE GroupAll(_, _)
GroupAll(maps, res) ==
    IF res = <<>> THEN maps
    ELSE LET r == Head(res)
         IN GroupAll([nameMap |-> Group(maps.nameMap, toLowerCase(r.name), r.file),
                      urlMap |-> Group(maps.urlMap, normalizedUrl(r.url), r.file)],
                     Tail(res))

\* DupMessage without the filter: the file itself is listed among the others
DupMessageWithSelf(kind, key, files, file) ==
    [kind |-> kind, key |-> key, others |-> files]

\* `Duplicate: <kind> "<key>" also exists in: <the other files, joined>`
DupMessage(kind, key, files, file) ==
    [kind |-> kind, key |-> key,
     others |-> SelectSeq(files, LAMBDA f : f # file)]

\* ReportFiles that takes the first file of a group for the original and
\* reports only the files enumerated after it
RECURSIVE ReportFilesAfterFirst(_, _, _, _, _)
ReportFilesAfterFirst(errs, kind, key, files, todo) ==
    IF todo = <<>> THEN errs
    ELSE LET file == Head(todo)
             existing == IF MapHas(errs, file) THEN MapGet(errs, file) ELSE <<>>
         IN ReportFilesAfterFirst(
                IF file = Head(files) THEN errs
                ELSE MapSet(errs, file,
                            Append(existing, DupMessage(kind, key, files, file))),
                kind, key, files, Tail(todo))

\* for (const file of files): append the message to the file's list
RECURSIVE ReportFiles(_, _, _, _, _)
ReportFiles(errs, kind, key, files, todo) ==
    IF todo = <<>> THEN errs
    ELSE LET file == Head(todo)
             existing == IF MapHas(errs, file) THEN MapGet(errs, file) ELSE <<>>
         IN ReportFiles(
                MapSet(errs, file, Append(existing, DupMessage(kind, key, files, file))),
                kind, key, files, Tail(todo))

\* for (const [key, files] of map): report the keys with more than one file
RECURSIVE ReportMap(_, _, _)
ReportMap(errs, kind, map) ==
    IF map = <<>> THEN errs
    ELSE LET e == Head(map)
         IN ReportMap(
                IF Len(e.val) > 1
                THEN ReportFiles(errs, kind, e.key, e.val, e.val)
                ELSE errs,
                kind, Tail(map))

\* checkDuplicates(resources): the Map file -> messages
checkDuplicates(res) ==
    LET maps == GroupAll([nameMap |-> <<>>, urlMap |-> <<>>], res)
    IN ReportMap(ReportMap(<<>>, "name", maps.nameMap), "url", maps.urlMap)

\* the corpora of at most MaxFiles files, in every enumeration order
InitDup ==
    /\ \E k \in 0..MaxFiles :
        \E order \in { o \in [1..k -> Files] : \A i, j \in 1..k : i # j => o[i] # o[j] },
           content \in [1..k -> NameStrings \X UrlStrings] :
            resources = [i \in 1..k |-> [file |-> order[i],
                                         name |-> content[i][1],
                                         url |-> content[i][2]]]
    /\ duplicateErrors = <<>>
    /\ dupPc = "start"

\* const duplicateErrors = checkDuplicates(resources)
DupCheck ==
    /\ dupPc = "start"
    /\ duplicateErrors' = checkDuplicates(resources)
    /\ dupPc' = "done"
    /\ UNCHANGED <<resources, inputVars, restVars, diffVars, syncVars>>

----------------------------------------------------------------------------
(* validateUrl, validateAllUrls *)

\* the most links of a record
MaxLinks == 1

\* A URL is the sequence of its scheme prefix and the characters after it;
\* the last one has a scheme and no host.
ValUrls == { <<"https://", "u">>, <<"http://", "v">>, <<"https://">> }

\* url.startsWith("http://")
StartsWithHttp(url) == url # <<>> /\ url[1] = "http://"

\* new URL(url) does not throw
ParsesAsUrl(url) == Len(url) >= 2 /\ url[1] \in {"http://", "https://"}

\* what becomes of a request: a response with an ok status, a response with
\* another status, a transport failure, no response within CONFIG.urlTimeout
Outcomes == {"ok", "status", "error", "timeout"}

\* error.name of the rejection of fetch: the HEAD request is aborted by
\* controller.abort(), the GET request by AbortSignal.timeout(), whose reason
\* is a TimeoutError; a transport failure is no abort
ThrownName(method, outcome) ==
    IF outcome = "timeout"
    THEN IF method = "HEAD" THEN "AbortError" ELSE "TimeoutError"
    ELSE "TypeError"

\* the catch block of validateUrl
CaughtMessage(name) ==
    IF name = "AbortError" THEN "request timed out" ELSE "is not accessible"

\* `URL: "<url>" <what>`
UrlMsg(what, url) == [what |-> what, about |-> url, label |-> "URL"]

Request(method, url, outcome) == [method |-> method, url |-> url, outcome |-> outcome]

\* validateUrl that sends the GET request whenever the HEAD request has not
\* been answered with an ok status, a rejected HEAD request included
validateUrlRetryAfterThrow(url, skip, head, get) ==
    LET warnings == IF StartsWithHttp(url)
                    THEN <<UrlMsg("uses HTTP instead of HTTPS", url)>> ELSE <<>>
        HEAD == Request("HEAD", url, head)
        GET == Request("GET", url, get)
        Ret(errors, reqs) ==
            [errors |-> errors, warnings |-> warnings, requests |-> reqs]
    IN IF ~ParsesAsUrl(url) THEN Ret(<<UrlMsg("is not a valid URL format", url)>>, <<>>)
       ELSE IF skip THEN Ret(<<>>, <<>>)
       ELSE IF head = "ok" THEN Ret(<<>>, <<HEAD>>)
       ELSE IF get = "ok" THEN Ret(<<>>, <<HEAD, GET>>)
       ELSE IF get = "status" THEN Ret(<<UrlMsg("returned status", url)>>, <<HEAD, GET>>)
       ELSE Ret(<<UrlMsg(CaughtMessage(ThrownName("GET", get)), url)>>, <<HEAD, GET>>)

\* validateUrl(url) under CONFIG.skipUrlCheck = skip, when the HEAD request
\* ends as head and the GET request, if it is sent, as get: the errors, the
\* warnings and the requests sent
validateUrl(url, skip, head, get) ==
    LET warnings == IF StartsWithHttp(url)
                    THEN <<UrlMsg("uses HTTP instead of HTTPS", url)>> ELSE <<>>
        HEAD == Request("HEAD", url, head)
        GET == Request("GET", url, get)
        Ret(errors, reqs) ==
            [errors |-> errors, warnings |-> warnings, requests |-> reqs]
    IN IF ~ParsesAsUrl(url) THEN Ret(<<UrlMsg("is not a valid URL format", url)>>, <<>>)
       ELSE IF skip THEN Ret(<<>>, <<>>)
       ELSE IF head = "ok" THEN Ret(<<>>, <<HEAD>>)
       \* await fetch(HEAD) rejects: the catch block, no GET request
       ELSE IF head # "status"
            THEN Ret(<<UrlMsg(CaughtMessage(ThrownName("HEAD", head)), url)>>, <<HEAD>>)
       \* !response.ok: the GET request
       ELSE IF get = "ok" THEN Ret(<<>>, <<HEAD, GET>>)
       ELSE IF get = "status" THEN Ret(<<UrlMsg("returned status", url)>>, <<HEAD, GET>>)
       ELSE Ret(<<UrlMsg(CaughtMessage(ThrownName("GET", get)), url)>>, <<HEAD, GET>>)

\* message.replace("URL:", `URL (links.${key}):`)
Relabel(msgs, key) == [i \in DOMAIN msgs |-> [msgs[i] EXCEPT !.label = key]]

\* the n-th URL of a record: its url, then the entries of its links
NthUrl(content, n) == IF n = 1 THEN content.url ELSE content.links[n - 1].url

\* the part of validateAllUrls that validates the n-th URL of the record
validateNth(content, n, skip, head, get) ==
    LET r == validateUrl(NthUrl(content, n), skip, head, get)
    IN IF n = 1 THEN r
       ELSE [r EXCEPT !.errors = Relabel(@, content.links[n - 1].key),
                      !.warnings = Relabel(@, content.links[n - 1].key)]

\* validateAllUrls(content) when the requests for the n-th URL end as outs[n]
RECURSIVE validateFrom(_, _, _, _)
validateFrom(content, n, skip, outs) ==
    IF n > 1 + Len(content.links)
    THEN [errors |-> <<>>, warnings |-> <<>>, requests |-> <<>>]
    ELSE LET r == validateNth(content, n, skip, outs[n][1], outs[n][2])
             t == validateFrom(content, n + 1, skip, outs)
         IN [errors |-> r.errors \o t.errors,
             warnings |-> r.warnings \o t.warnings,
             requests |-> r.requests \o t.requests]

validateAllUrls(content, skip, outs) == validateFrom(content, 1, skip, outs)

\* the links of a record: Object.entries(content.links)
LinkKeys == <<"docs", "repo">>
LinkLists ==
    UNION { { [i \in 1..n |-> [key |-> LinkKeys[i], url |-> us[i]]] :
                us \in [1..n -> ValUrls] } : n \in 0..MaxLinks }

\* validateAllUrls is called for a record that passed the schema, with the
\* liveness check enabled
InitUrl ==
    /\ \E url \in ValUrls, links \in LinkLists :
        urlContent = [url |-> url, links |-> links]
    /\ ui = 0 /\ urlErrors = <<>> /\ urlWarnings = <<>> /\ requests = <<>>
    /\ urlPc = "run"

\* await validateUrl(...) for the next URL of the record, and the pushes
UrlNext ==
    /\ urlPc = "run"
    /\ ui < 1 + Len(urlContent.links)
    /\ \E head \in Outcomes, get \in Outcomes :
        LET r == validateNth(urlContent, ui + 1, skipUrlCheck, head, get)
        IN /\ urlErrors' = urlErrors \o r.errors
           /\ urlWarnings' = urlWarnings \o r.warnings
           /\ requests' = requests \o r.requests
    /\ ui' = ui + 1
    /\ UNCHANGED <<urlContent, urlPc, inputVars, diffVars, syncVars, dupVars,
                   valVars, fetchVars>>

\* return { errors, warnings }
UrlReturn ==
    /\ urlPc = "run"
    /\ ui = 1 + Len(urlContent.links)
    /\ urlPc' = "done"
    /\ UNCHANGED <<urlContent, ui, urlErrors, urlWarnings, requests, inputVars,
                   diffVars, syncVars, dupVars, valVars, fetchVars>>

----------------------------------------------------------------------------
(* validateFileName, validateSchema, validateJsonFile, runTests *)

\* The files getAllJsonFiles can return, in the order of readdir. A corpus
\* holds some of them; the last two do not occur together.
ValPathOrder == <<"sites/a.json", "sites/b.json", "sites/c.json", "sites/My_File.json">>

\* kebabCaseRegex.test(basename(filePath).replace(".json", ""))
IsKebabCase(filePath) == filePath \in {"sites/a.json", "sites/b.json", "sites/c.json"}

\* messages about a file
FileMsg(what, filePath) == [what |-> what, file |-> filePath]

\* fileName.endsWith(".json"): getAllJsonFiles returns no other file
HasJsonExtension(filePath) ==
    filePath \in {"sites/a.json", "sites/b.json", "sites/c.json", "sites/My_File.json"}

\* validateFileName(filePath)
validateFileName(filePath) ==
    (IF HasJsonExtension(filePath) THEN <<>>
     ELSE <<FileMsg("FileName: File must have .json extension", filePath)>>)
    \o (IF IsKebabCase(filePath) THEN <<>>
        ELSE <<FileMsg("FileName: must be kebab-case", filePath)>>)

\* What file.json() gives: a rejection, the value null, or an object. Of an
\* object, the name, the url, the links and the required properties it lacks.
Unparsable == [json |-> "unparsable"]
NullJson == [json |-> "null"]
RecordNames == { <<"a">>, <<"b">> }
ValContents ==
    {Unparsable, NullJson}
    \cup { [json |-> "object", name |-> n, url |-> u, links |-> <<>>, missing |-> {}] :
            n \in RecordNames, u \in ValUrls }
    \cup { [json |-> "object", name |-> <<"a">>, url |-> <<"https://", "u">>,
            links |-> <<>>, missing |-> {"pricing"}] }
    \cup { [json |-> "object", name |-> <<>>, url |-> <<"https://", "u">>,
            links |-> <<>>, missing |-> {"name"}] }

\* the required properties of schema.json the corpora leave out
RequiredProperties == <<"name", "pricing">>

\* validateSchema(content): one error per violation (allErrors)
validateSchema(content) ==
    IF content.json # "object"
    THEN <<[what |-> "Schema: must be object", path |-> "(root)"]>>
    ELSE LET lacking == SelectSeq(RequiredProperties, LAMBDA q : q \in content.missing)
         IN [i \in DOMAIN lacking |->
                [what |-> "Schema: must have required property", path |-> lacking[i]]]

\* `if (content)`: the truthiness of the parsed value
Truthy(content) == content.json = "object"

NoUrlResult == [errors |-> <<>>, warnings |-> <<>>, requests |-> <<>>]

\* the URL validation of validateJsonFile made whatever checkUrls says
urlValidationAlways(content, checkUrls, skip, outs) ==
    validateAllUrls(content, skip, outs)

\* if (checkUrls) { urlResult = await validateAllUrls(content) ... }
urlValidation(content, checkUrls, skip, outs) ==
    IF checkUrls THEN validateAllUrls(content, skip, outs) ELSE NoUrlResult

\* only a value that is no object ends the validation of the record; a
\* missing property does not
schemaStopsAtRootOnly(schemaErrors) ==
    \E i \in DOMAIN schemaErrors : schemaErrors[i].path = "(root)"

\* if (schemaErrors.length > 0) return ...
schemaStops(schemaErrors) == Len(schemaErrors) > 0

\* validateJsonFile(filePath, checkUrls) when the file holds content and the
\* requests end as outs: the result, whether a content is returned, and the
\* requests sent
validateJsonFile(filePath, content, checkUrls, skip, outs) ==
    LET fileNameErrors == validateFileName(filePath)
        Result(valid, errors, warnings) ==
            [file |-> filePath, valid |-> valid, errors |-> errors, warnings |-> warnings]
    IN IF content.json = "unparsable"
       THEN [result |-> Result(FALSE, <<FileMsg("JSON Parse Error", filePath)>>, <<>>),
             hasContent |-> FALSE, requests |-> <<>>]
       ELSE LET schemaErrors == validateSchema(content)
                errors == fileNameErrors \o schemaErrors
            IN IF schemaStops(schemaErrors)
               THEN [result |-> Result(FALSE, errors, <<>>),
                     hasContent |-> Truthy(content), requests |-> <<>>]
               ELSE LET u == urlValidation(content, checkUrls, skip, outs)
                        all == errors \o u.errors
                    IN [result |-> Result(Len(all) = 0, all, u.warnings),
                        hasContent |-> Truthy(content), requests |-> u.requests]

\* the corpora: the files present, in the order of readdir, and their contents
Corpora ==
    UNION { LET order == SelectSeq(ValPathOrder, LAMBDA q : q \in S)
            IN { [i \in DOMAIN order |-> [file |-> order[i], content |-> cs[i]]] :
                    cs \in [DOMAIN order -> ValContents] } :
            S \in { T \in SUBSET { ValPathOrder[i] : i \in DOMAIN ValPathOrder } :
                        ~ {"sites/c.json", "sites/My_File.json"} \subseteq T } }

\* how the server of a URL treats the HEAD request and the GET request: it
\* answers both, answers GET only, answers both with a failure status, or
\* answers neither in time
ServerBehaviours ==
    { <<"ok", "ok">>, <<"status", "ok">>, <<"status", "status">>,
      <<"timeout", "timeout">> }

InitVal ==
    /\ skipUrlCheck \in BOOLEAN
    /\ corpus \in Corpora
    /\ vi = 0 /\ results = <<>>
    /\ passCount = 0 /\ failCount = 0 /\ warningCount = 0
    /\ valExit = -1 /\ valPc = "start"
    /\ resources = <<>> /\ duplicateErrors = <<>> /\ dupPc = "idle"
    /\ requests = <<>>

valOther == <<inputVars, diffVars, syncVars, dupPc, urlContent, ui, urlErrors,
              urlWarnings, urlPc, fetchVars>>

\* if (jsonFiles.length === 0) process.exit(0)
ValStart ==
    /\ valPc = "start"
    /\ IF Len(corpus) = 0
       THEN valExit' = 0 /\ valPc' = "exited"
       ELSE valExit' = valExit /\ valPc' = "first"
    /\ UNCHANGED <<skipUrlCheck, corpus, vi, results, passCount, failCount,
                   warningCount, resources, duplicateErrors, requests, valOther>>

\* one round of the first pass: validateJsonFile(filePath, !CONFIG.skipUrlCheck),
\* results.push, resources.set, the three counters
ValFile ==
    /\ valPc = "first"
    /\ vi < Len(corpus)
    /\ LET filePath == corpus[vi + 1].file
           content == corpus[vi + 1].content
       IN \E outs \in [{1} -> ServerBehaviours] :
            LET v == validateJsonFile(filePath, content, ~skipUrlCheck,
                                      skipUrlCheck, outs)
            IN /\ results' = Append(results, v.result)
               /\ requests' = requests \o v.requests
               /\ resources' =
                    IF v.hasContent
                    THEN Append(resources, [file |-> filePath, name |-> content.name,
                                            url |-> content.url])
                    ELSE resources
               /\ IF v.result.valid
                  THEN /\ warningCount' = IF Len(v.result.warnings) > 0
                                          THEN warningCount + 1 ELSE warningCount
                       /\ passCount' = passCount + 1
                       /\ failCount' = failCount
                  ELSE /\ failCount' = failCount + 1
                       /\ UNCHANGED <<passCount, warningCount>>
    /\ vi' = vi + 1
    /\ UNCHANGED <<skipUrlCheck, corpus, valExit, valPc, duplicateErrors, valOther>>

\* the content of a file of the corpus
ContentOf(filePath) ==
    corpus[CHOOSE i \in DOMAIN corpus : corpus[i].file = filePath].content

\* content.name.toLowerCase() or content.url.toLowerCase() throws a TypeError
\* for a resource without that property
DuplicatesThrow ==
    \E i \in DOMAIN resources : "name" \in ContentOf(resources[i].file).missing

\* const duplicateErrors = checkDuplicates(resources)
ValDuplicates ==
    /\ valPc = "first"
    /\ vi = Len(corpus)
    /\ ~DuplicatesThrow
    /\ duplicateErrors' = checkDuplicates(resources)
    /\ vi' = 0
    /\ valPc' = "second"
    /\ UNCHANGED <<skipUrlCheck, corpus, results, passCount, failCount, warningCount,
                   valExit, resources, requests, valOther>>

\* checkDuplicates throws: runTests().catch prints the error, process.exit(1)
ValDuplicatesThrow ==
    /\ valPc = "first"
    /\ vi = Len(corpus)
    /\ DuplicatesThrow
    /\ valExit' = 1
    /\ valPc' = "crashed"
    /\ UNCHANGED <<skipUrlCheck, corpus, vi, results, passCount, failCount,
                   warningCount, resources, duplicateErrors, requests, valOther>>

\* results.find((r) => r.file === filePath): the index of the first, or 0
FindResult(filePath) ==
    IF \E k \in DOMAIN results : results[k].file = filePath
    THEN CHOOSE k \in DOMAIN results :
            /\ results[k].file = filePath
            /\ \A j \in 1..(k - 1) : results[j].file # filePath
    ELSE 0

\* ValFlag that overwrites the result of every flagged file
ValFlagOverwritesInvalid ==
    /\ valPc = "second"
    /\ vi < Len(duplicateErrors)
    /\ LET e == duplicateErrors[vi + 1]
           k == FindResult(e.key)
       IN IF k # 0
          THEN /\ results' = [results EXCEPT ![k] = [@ EXCEPT !.valid = FALSE,
                                                              !.errors = e.val]]
               /\ passCount' = IF results[k].valid THEN passCount - 1 ELSE passCount
               /\ failCount' = IF results[k].valid THEN failCount + 1 ELSE failCount
          ELSE UNCHANGED <<results, passCount, failCount>>
    /\ vi' = vi + 1
    /\ UNCHANGED <<skipUrlCheck, corpus, warningCount, valExit, valPc, resources,
                   duplicateErrors, requests, valOther>>

\* ValFlag that leaves the two counters as the first pass set them
ValFlagKeepsCounts ==
    /\ valPc = "second"
    /\ vi < Len(duplicateErrors)
    /\ LET e == duplicateErrors[vi + 1]
           k == FindResult(e.key)
       IN IF k # 0 /\ results[k].valid
          THEN results' = [results EXCEPT ![k] = [@ EXCEPT !.valid = FALSE,
                                                           !.errors = e.val]]
          ELSE UNCHANGED results
    /\ vi' = vi + 1
    /\ UNCHANGED <<skipUrlCheck, corpus, passCount, failCount, warningCount, valExit,
                   valPc, resources, duplicateErrors, requests, valOther>>

\* one round of the second pass, for (const [filePath, errors] of
\* duplicateErrors): a result that was valid is made invalid, its errors are
\* replaced, passCount-- and failCount++
ValFlag ==
    /\ valPc = "second"
    /\ vi < Len(duplicateErrors)
    /\ LET e == duplicateErrors[vi + 1]
           k == FindResult(e.key)
       IN IF k # 0 /\ results[k].valid
          THEN /\ results' = [results EXCEPT ![k] = [@ EXCEPT !.valid = FALSE,
                                                              !.errors = e.val]]
               /\ passCount' = passCount - 1
               /\ failCount' = failCount + 1
          ELSE UNCHANGED <<results, passCount, failCount>>
    /\ vi' = vi + 1
    /\ UNCHANGED <<skipUrlCheck, corpus, warningCount, valExit, valPc, resources,
                   duplicateErrors, requests, valOther>>

\* the summary, and if (failCount > 0) process.exit(1)
ValReport ==
    /\ valPc = "second"
    /\ vi = Len(duplicateErrors)
    /\ valExit' = IF failCount > 0 THEN 1 ELSE 0
    /\ valPc' = "done"
    /\ UNCHANGED <<skipUrlCheck, corpus, vi, results, passCount, failCount,
                   warningCount, resources, duplicateErrors, requests, valOther>>

----------------------------------------------------------------------------
(* getExistingPages *)

\* the most pages of an answer of the store, and the most results in all
MaxPages == 2
MaxResults == 3

\* a page of the database has a title text or none: no Name property of type
\* title, an empty title array, or an empty plain_text
NoTitle == "<no title>"
Titles == Names \cup {NoTitle}

\* the ways to cut len results into n pages: the index of the last result of
\* each page
Cuts(n, len) ==
    { c \in [1..n -> 0..len] :
        /\ c[n] = len
        /\ \A p \in 1..(n - 1) : c[p] <= c[p + 1] }

\* The store answers a query in pages of results: store[p][k] is the title of
\* the k-th result of page p. Two results can have the same title, and a page
\* can be empty. A database without pages answers with no page at all.
Stores ==
    {<<>>} \cup
    UNION { { [p \in 1..n |-> SubSeq(t, IF p = 1 THEN 1 ELSE c[p - 1] + 1, c[p])] :
                c \in Cuts(n, Len(t)) } :
            n \in 1..MaxPages,
            t \in UNION { [1..m -> Titles] : m \in 0..MaxResults } }

\* the id of a result: every page of the database has its own
PageId(p, k) == <<p, k>>

\* no cursor: `undefined` in the request, `null` in the response
NoCursor == 0

\* The response to a query with start_cursor = cursor: the results of that
\* page, has_more and next_cursor. A query without cursor gets the first
\* page; next_cursor is null exactly when has_more is false.
Query(cursor) ==
    LET p == IF cursor = NoCursor THEN 1 ELSE cursor
    IN IF p > Len(store)
       THEN [results |-> <<>>, has_more |-> FALSE, next_cursor |-> NoCursor]
       ELSE [results |-> [k \in DOMAIN store[p] |->
                            [id |-> PageId(p, k), title |-> store[p][k]]],
             has_more |-> p < Len(store),
             next_cursor |-> IF p < Len(store) THEN p + 1 ELSE NoCursor]

\* Map.prototype.set on a Map kept as a function
SetPage(pages, name, id) ==
    [n \in DOMAIN pages \cup {name} |-> IF n = name THEN id ELSE pages[n]]

\* for (const page of response.results): the pages with a title text are set
RECURSIVE IndexResults(_, _)
IndexResults(pages, res) ==
    IF res = <<>> THEN pages
    ELSE IndexResults(
            IF Head(res).title = NoTitle THEN pages
            ELSE SetPage(pages, Head(res).title, Head(res).id),
            Tail(res))

InitFetch ==
    /\ store \in Stores
    /\ hasMore = TRUE
    /\ startCursor = NoCursor
    /\ fetchLog = <<>>
    /\ fetchPc = "loop"

fetchOther == <<inputVars, diffVars, remoteIndex, pc, run, jsonFiles, DIFFS, di, fi,
                counts, calls, logs, exitCode, dupVars, urlVars, valVars>>

\* a round of the loop that asks again with the cursor it asked with
FetchPageKeepsCursor ==
    /\ fetchPc = "loop"
    /\ hasMore
    /\ LET response == Query(startCursor)
       IN /\ existingPages' = IndexResults(existingPages, response.results)
          /\ hasMore' = response.has_more
          /\ startCursor' = startCursor
    /\ fetchLog' = Append(fetchLog, startCursor)
    /\ UNCHANGED <<store, fetchPc, fetchOther>>

\* a round of while (hasMore): the query is answered, its results are put in
\* the Map, hasMore and startCursor are taken from the response
FetchPage ==
    /\ fetchPc = "loop"
    /\ hasMore
    /\ LET response == Query(startCursor)
       IN /\ existingPages' = IndexResults(existingPages, response.results)
          /\ hasMore' = response.has_more
          /\ startCursor' = response.next_cursor
    /\ fetchLog' = Append(fetchLog, startCursor)
    /\ UNCHANGED <<store, fetchPc, fetchOther>>

\* if (!fetchResponse.ok) throw new Error(`Notion API error: ...`)
FetchFail ==
    /\ fetchPc = "loop"
    /\ hasMore
    /\ fetchLog' = Append(fetchLog, startCursor)
    /\ fetchPc' = "threw"
    /\ UNCHANGED <<store, hasMore, startCursor, existingPages, fetchOther>>

\* return existingPages
FetchReturn ==
    /\ fetchPc = "loop"
    /\ ~hasMore
    /\ fetchPc' = "done"
    /\ UNCHANGED <<store, hasMore, startCursor, fetchLog, existingPages, fetchOther>>

----------------------------------------------------------------------------
(* Idle values of the components added below *)

UrlIdle ==
    /\ urlContent = <<>> /\ ui = 0 /\ urlErrors = <<>> /\ urlWarnings = <<>>
    /\ requests = <<>> /\ urlPc = "idle"

ValIdle ==
    /\ skipUrlCheck = FALSE /\ corpus = <<>> /\ vi = 0 /\ results = <<>>
    /\ passCount = 0 /\ failCount = 0 /\ warningCount = 0
    /\ valExit = -1 /\ valPc = "idle"

FetchIdle ==
    /\ store = <<>> /\ hasMore = FALSE /\ startCursor = 0 /\ fetchLog = <<>>
    /\ fetchPc = "idle"

----------------------------------------------------------------------------
(* Specifications *)

InitDiff ==
    /\ InitInputs({PathA, PathB, PathW}, MaxExtra)
    /\ dpc = "start" /\ lineIdx = 0
    /\ added = <<>> /\ deleted = <<>> /\ modified = <<>>
    /\ SyncIdle
    /\ DupIdle
    /\ UrlIdle /\ ValIdle /\ FetchIdle

NextDiff == DiffExec \/ DiffExecFail \/ DiffLine \/ DiffReturn

SpecDiff == InitDiff /\ [][NextDiff]_vars

InitSync ==
    /\ InitInputs({PathA, PathB}, 0)
    /\ DiffIdle
    /\ remoteIndex \in RemoteIndexes
    /\ pc = "start" /\ run = 1 /\ jsonFiles = <<>>
    /\ existingPages = <<>> /\ DIFFS = EmptyDiff /\ di = 0 /\ fi = 0
    /\ counts = ZeroCounts /\ calls = <<>> /\ logs = <<>> /\ exitCode = -1
    /\ DupIdle
    /\ UrlIdle /\ ValIdle /\ FetchIdle

NextSync ==
    \/ SyncEnumerate \/ SyncQuery \/ SyncQueryFail \/ SyncDiff \/ SyncDiffFail
    \/ SyncDelete \/ SyncDeleteDone \/ SyncFile \/ SyncReport \/ SyncRerun

SpecSync == InitSync /\ [][NextSync]_vars

InitDupOnly ==
    /\ prevSnap = <<>> /\ headSnap = <<>> /\ stdout = <<>>
    /\ DiffIdle
    /\ SyncIdle
    /\ InitDup
    /\ UrlIdle /\ ValIdle /\ FetchIdle

NextDup == DupCheck

SpecDup == InitDupOnly /\ [][NextDup]_vars

InitUrlOnly ==
    /\ prevSnap = <<>> /\ headSnap = <<>> /\ stdout = <<>>
    /\ DiffIdle /\ SyncIdle /\ DupIdle
    /\ InitUrl
    /\ ValIdle /\ FetchIdle

NextUrl == UrlNext \/ UrlReturn

SpecUrl == InitUrlOnly /\ [][NextUrl]_vars

InitValOnly ==
    /\ prevSnap = <<>> /\ headSnap = <<>> /\ stdout = <<>>
    /\ DiffIdle /\ SyncIdle
    /\ urlContent = <<>> /\ ui = 0 /\ urlErrors = <<>> /\ urlWarnings = <<>>
    /\ urlPc = "idle"
    /\ InitVal
    /\ FetchIdle

NextVal ==
    \/ ValStart \/ ValFile \/ ValDuplicates \/ ValDuplicatesThrow \/ ValFlag
    \/ ValReport

SpecVal == InitValOnly /\ [][NextVal]_vars

InitFetchOnly ==
    /\ prevSnap = <<>> /\ headSnap = <<>> /\ stdout = <<>>
    /\ DiffIdle /\ SyncIdle /\ DupIdle /\ UrlIdle /\ ValIdle
    /\ InitFetch

NextFetch == FetchPage \/ FetchFail \/ FetchReturn

\* every awaited query is answered in the end, and the loop goes on
SpecFetch == InitFetchOnly /\ [][NextFetch]_vars /\ WF_vars(NextFetch)

----------------------------------------------------------------------------
(* Helpers of the properties *)

Range(s) == { s[i] : i \in DOMAIN s }
Last(s) == s[Len(s)]

\* the remote calls of the current run that failed, and the unreadable files
FailedCalls == { i \in DOMAIN calls : ~calls[i].ok }
OkCalls(op) == { i \in DOMAIN calls : calls[i].ok /\ calls[i].op = op }
BadFiles == { i \in DOMAIN jsonFiles : headSnap[jsonFiles[i]] = BAD }

\* the call made by the step, when the step made one
NewCall == calls'[Len(calls')]
MadeCall == Len(calls') = Len(calls) + 1

----------------------------------------------------------------------------
(* Sync Reconciler *)

\* each revision holds a record name in at most one file, as the corpus
\* invariant of the validated repository demands
UniqueNames(snap) ==
    \A p, q \in DOMAIN snap : (p # q /\ snap[p] \in Names) => snap[p] # snap[q]
ValidRevisions == UniqueNames(prevSnap) /\ UniqueNames(headSnap)

\* C1: when the sync is run twice on the identical Change-Set, Remote Index and
\* corpus, the second run issues no create, update or archive call (stated for
\* valid revisions).
C1_SecondRunIssuesNoCall == (ValidRevisions /\ run >= 2) => calls = <<>>

\* C2: for a name of the deleted list, whatever the corpus holds: with a remote
\* id for the name the reconciler issues the archive call for that id, and counts
\* the record as deleted when the call succeeds; without one it logs the warning
\* only: no call, no exception, no counter changes.
C2_DeletedNames ==
    [][ (pc = "deleting" /\ di <= Len(DIFFS.deleted)) =>
          LET n == DIFFS.deleted[di]
          IN IF n \in DOMAIN remoteIndex
             THEN /\ MadeCall
                  /\ NewCall.op = "archive"
                  /\ NewCall.name = n
                  /\ NewCall.id = remoteIndex[n]
                  /\ NewCall.ok => counts' = [counts EXCEPT !.deleted = @ + 1]
             ELSE /\ calls' = calls
                  /\ counts' = counts
                  /\ pc' = pc /\ exitCode' = exitCode
                  /\ logs' = Append(logs, [kind |-> "Page not found for deletion",
                                           what |-> n]) ]_vars

\* an empty corpus, one deleted name archived and counted, another one without a
\* remote id warned about, and no error
C2_Witness ==
    /\ pc = "done"
    /\ jsonFiles = <<>>
    /\ counts.deleted = 1 /\ counts.errors = 0
    /\ Cardinality(OkCalls("archive")) = 1
    /\ \E i \in DOMAIN logs : logs[i].kind = "Page not found for deletion"

\* C3: for a record loaded from the corpus: a name in added is created (also
\* when the Remote Index holds an id for it) and counted as created; otherwise a
\* name in modified with a remote id is updated under that id and counted as
\* updated; otherwise no call is made and no counter changes.
C3_RecordRule ==
    [][ (pc = "processing" /\ fi <= Len(jsonFiles)
            /\ headSnap[jsonFiles[fi]] \in Names) =>
          LET name == headSnap[jsonFiles[fi]]
          IN IF name \in Range(DIFFS.added)
             THEN /\ MadeCall
                  /\ NewCall.op = "create" /\ NewCall.name = name
                  /\ NewCall.ok => counts' = [counts EXCEPT !.created = @ + 1]
             ELSE IF name \in Range(DIFFS.modified) /\ name \in DOMAIN remoteIndex
             THEN /\ MadeCall
                  /\ NewCall.op = "update" /\ NewCall.name = name
                  /\ NewCall.id = remoteIndex[name]
                  /\ NewCall.ok => counts' = [counts EXCEPT !.updated = @ + 1]
             ELSE /\ calls' = calls
                  /\ counts' = counts ]_vars

\* a record that is in added was created although the Remote Index holds an id
\* for its name
C3_Witness ==
    /\ pc = "done"
    /\ counts.created >= 1
    /\ \E i \in DOMAIN calls :
        /\ calls[i].op = "create" /\ calls[i].ok
        /\ calls[i].name \in DOMAIN remoteIndex

\* the step loads an unreadable file, or makes a remote call that fails
C4_RecordFails ==
    \/ /\ pc = "deleting" /\ di <= Len(DIFFS.deleted)
       /\ MadeCall /\ ~NewCall.ok
    \/ /\ pc = "processing" /\ fi <= Len(jsonFiles)
       /\ \/ headSnap[jsonFiles[fi]] = BAD
          \/ MadeCall /\ ~NewCall.ok

C4_RunGoesOn ==
    C4_RecordFails =>
        /\ counts' = [counts EXCEPT !.errors = @ + 1]
        /\ pc' = pc /\ exitCode' = exitCode
        /\ di' + fi' = di + fi + 1

C4_RunEnds ==
    /\ pc = "done" =>
        /\ di = Len(DIFFS.deleted) + 1
        /\ fi = Len(jsonFiles) + 1
        /\ counts.errors = Cardinality(FailedCalls) + Cardinality(BadFiles)
        /\ Last(logs).kind = "Sync complete"
        /\ Last(logs).what = counts
    /\ pc = "failed" => calls = <<>> /\ counts = ZeroCounts

\* C4: a failure while loading, creating, updating or archiving one record adds
\* exactly one to the error count and does not stop the run: the loop goes on
\* with the next deleted name or file, every deleted name and every file has been
\* processed when the run ends, and the run ends by reporting the counts.
C4_FailureIsCountedAndContained == [][C4_RunGoesOn]_vars /\ []C4_RunEnds

\* a call failed, a later one succeeded, and the counts were reported
C4_Witness ==
    /\ pc = "done"
    /\ counts.errors >= 1
    /\ \E i, j \in DOMAIN calls : i < j /\ ~calls[i].ok /\ calls[j].ok

\* C5: in one run no two remote operations are issued for the same record name
\* or for the same remote id (stated for valid revisions).
C5_OneOperationPerRecord ==
    ValidRevisions =>
    \A i, j \in DOMAIN calls :
        i < j => /\ calls[i].name # calls[j].name
                 /\ calls[i].id = NoId \/ calls[i].id # calls[j].id

\* the run was ended by a failure of the Remote Index query
QueryFailed ==
    /\ logs # <<>>
    /\ Last(logs).kind = "Sync failed"
    /\ Last(logs).what = "getExistingPages"

\* C6 as claimed: a failure of the Remote Index query is caught and counted
\* and never aborts the batch.
C6_QueryFailureNeverAborts ==
    QueryFailed => pc # "failed" /\ counts.errors >= 1

C6_QueryStep ==
    pc = "query" =>
        \/ pc' = "diff" /\ existingPages' = remoteIndex /\ counts' = ZeroCounts
        \/ pc' = "failed" /\ exitCode' = 1
        \/ UNCHANGED vars

C6_Aborted ==
    pc = "failed" =>
        /\ exitCode = 1
        /\ Last(logs).kind = "Sync failed"
        /\ DIFFS.deleted = <<>> \/ di <= 1
        /\ fi = 0
        /\ calls = <<>> /\ counts = ZeroCounts
        /\ \A i \in DOMAIN logs : logs[i].kind # "Sync complete"

\* C6 as amended: a failure of the Remote Index query is not caught by the
\* reconciler: the run either goes on with the index the store returned or is
\* aborted, and an aborted run exits with status 1 after logging "Sync failed",
\* having processed no deleted name and no corpus record, counted nothing and
\* reported no counts.
C6_QueryFailureAbortsRun == [][C6_QueryStep]_vars /\ []C6_Aborted

\* the query failed although there were files to process and pages to match
C6_Witness ==
    /\ QueryFailed
    /\ pc = "failed"
    /\ jsonFiles # <<>>
    /\ remoteIndex # <<>>
    /\ Len(Lines(stdout)) > 0

----------------------------------------------------------------------------
(* Change-Set Resolver *)

\* C7: the added, modified and deleted lists the resolver returns are pairwise
\* disjoint (stated for valid revisions).
C7_ListsDisjoint ==
    (ValidRevisions /\ dpc = "done") =>
        /\ Range(added) \cap Range(modified) = {}
        /\ Range(added) \cap Range(deleted) = {}
        /\ Range(modified) \cap Range(deleted) = {}

\* the changed path of a line, and whether it is a path under sites/ ending
\* in .json
ChangedPath(line) == Tail(line)
UnderSitesJson(path) ==
    /\ path # <<>>
    /\ StartsWithSites(path[1])
    /\ EndsWithJson(path[Len(path)])

\* the name of the record at a path of a snapshot, BAD when it cannot be read
RecordNameAt(snap, path) ==
    IF path \in DOMAIN snap /\ snap[path] \in Names THEN snap[path] ELSE BAD

\* the lists as the resolver is said to build them, line by line
RECURSIVE C8_Resolved(_, _)
C8_Resolved(acc, lines) ==
    IF lines = <<>> THEN acc
    ELSE LET line == Head(lines)
             path == ChangedPath(line)
             snap == IF line[1] = "D" THEN prevSnap ELSE headSnap
             list == CASE line[1] = "A" -> "added"
                       [] line[1] = "D" -> "deleted"
                       [] line[1] = "M" -> "modified"
                       [] OTHER -> "none"
             name == RecordNameAt(snap, path)
         IN C8_Resolved(
                IF UnderSitesJson(path) /\ list # "none" /\ name # BAD
                THEN [acc EXCEPT ![list] = Append(@, name)]
                ELSE acc,
                Tail(lines))

\* C8: every changed path under sites/ ending in .json puts the record's name
\* in exactly one list, chosen by its status (added and modified: the name in
\* the current snapshot; deleted: the name in the previous snapshot); any other
\* path contributes nothing (stated for valid revisions; a path that cannot be
\* read is skipped, as C9 says).
C8_EveryRecordPathResolved ==
    (ValidRevisions /\ dpc = "done") =>
        [added |-> added, deleted |-> deleted, modified |-> modified]
            = C8_Resolved(EmptyDiff, Lines(stdout))

\* the line is one the resolver reads a record for, and the read or the parse
\* fails
ReadFails(line) ==
    /\ Len(line) >= 2
    /\ StartsWithSites(line[2]) /\ EndsWithJson(line[2])
    /\ line[1] \in {"A", "D", "M"}
    /\ LET snap == IF line[1] = "D" THEN prevSnap ELSE headSnap
       IN ~(<<line[2]>> \in DOMAIN snap /\ snap[<<line[2]>>] \in Names)

\* the lines handled so far
LinesDone == SubSeq(Lines(stdout), 1, lineIdx - 1)

\* C9: a changed path whose content cannot be read or parsed is skipped and
\* nothing else: the resolution is not aborted, and the lists are those the
\* resolver builds from the diff without the failing paths.
C9_FailingPathSkipped ==
    /\ dpc = "threw" => lineIdx = 0
    /\ dpc \in {"loop", "done"} =>
        [added |-> added, deleted |-> deleted, modified |-> modified]
            = diffLines(EmptyDiff,
                        SelectSeq(LinesDone, LAMBDA line : ~ReadFails(line)),
                        prevSnap, headSnap)

\* a path that failed was followed by one that was resolved
C9_Witness ==
    /\ dpc = "done"
    /\ \E i, j \in DOMAIN LinesDone :
        /\ i < j
        /\ ReadFails(LinesDone[i])
        /\ ~ReadFails(LinesDone[j])
        /\ LinesDone[j][1] = "A"
        /\ Len(added) = 1

----------------------------------------------------------------------------
(* Duplicate Detector *)

\* the record of a file of the input
ResourceOf(f) == CHOOSE r \in Range(resources) : r.file = f
InputFiles == { r.file : r \in Range(resources) }

\* the other files with the same lower-cased name, with the same normalized url
SameName(f) ==
    { g \in InputFiles \ {f} :
        toLowerCase(ResourceOf(g).name) = toLowerCase(ResourceOf(f).name) }
SameUrl(f) ==
    { g \in InputFiles \ {f} :
        StripTrailingSlash(toLowerCase(ResourceOf(g).url))
            = StripTrailingSlash(toLowerCase(ResourceOf(f).url)) }

\* the messages of a file in the result, of one kind
MessagesOf(f) == IF MapHas(duplicateErrors, f) THEN MapGet(duplicateErrors, f) ELSE <<>>
MessagesOfKind(f, kind) == SelectSeq(MessagesOf(f), LAMBDA m : m.kind = kind)

\* the messages of one kind are: none without a collision; with one, a single
\* message that lists each colliding file once and not the file itself
C10_KindRight(f, kind, colliding) ==
    LET ms == MessagesOfKind(f, kind)
    IN IF colliding = {}
       THEN ms = <<>>
       ELSE /\ Len(ms) = 1
            /\ Range(ms[1].others) = colliding
            /\ Len(ms[1].others) = Cardinality(colliding)
            /\ f \notin Range(ms[1].others)

\* C10: a file is flagged iff another file of the input has the same
\* lower-cased name or the same normalized url; a flagged file has exactly one
\* message per colliding key, and each message lists all the other files that
\* share the key and never the file itself.
C10_DuplicatesFlagged ==
    dupPc = "done" =>
        /\ \A i \in DOMAIN duplicateErrors : duplicateErrors[i].key \in InputFiles
        /\ \A f \in InputFiles :
            /\ MapHas(duplicateErrors, f) <=> (SameName(f) # {} \/ SameUrl(f) # {})
            /\ C10_KindRight(f, "name", SameName(f))
            /\ C10_KindRight(f, "url", SameUrl(f))
            /\ Len(MessagesOf(f)) = Len(MessagesOfKind(f, "name"))
                                    + Len(MessagesOfKind(f, "url"))

\* three files: one collides with a second by name (differing in case) and with
\* the third by url (differing in case and trailing slash), and has two messages
C10_Witness ==
    /\ dupPc = "done"
    /\ \E f \in InputFiles :
        /\ Len(MessagesOf(f)) = 2
        /\ \E g \in SameName(f) : ResourceOf(g).name # ResourceOf(f).name
        /\ \E g \in SameUrl(f) : ResourceOf(g).url # ResourceOf(f).url
        /\ SameName(f) \cap SameUrl(f) = {}

----------------------------------------------------------------------------
(* Duplicate Detector: enumeration order *)

\* the same corpus enumerated in ascending order of the files
RECURSIVE SortByFile(_)
SortByFile(res) ==
    IF res = <<>> THEN <<>>
    ELSE LET i == CHOOSE j \in DOMAIN res :
                    \A k \in DOMAIN res : res[j].file <= res[k].file
         IN <<res[i]>> \o SortByFile(SubSeq(res, 1, i - 1)
                                      \o SubSeq(res, i + 1, Len(res)))

\* a result of checkDuplicates as a mapping file -> list of messages
MessagesIn(errs, f) == IF MapHas(errs, f) THEN MapGet(errs, f) ELSE <<>>

\* a message without the order in which it lists the other files
Unordered(m) == [kind |-> m.kind, key |-> m.key, others |-> Range(m.others)]
UnorderedAll(ms) == [i \in DOMAIN ms |-> Unordered(ms[i])]

\* C11 as stated: every enumeration order of a corpus gives the same mapping
\* from file to list of duplicate messages (each order is compared with the
\* ascending one, so any two orders are compared with each other).
C11_SameMessagesInAnyOrder ==
    dupPc = "done" =>
        \A f \in Files :
            MessagesIn(duplicateErrors, f)
                = MessagesIn(checkDuplicates(SortByFile(resources)), f)

\* C11 amended: every enumeration order of a corpus flags the same files and
\* gives each file the same list of messages (same kinds, same keys, same
\* other files) up to the order in which a message lists the other files,
\* which is their enumeration order.
C11_SameMessagesUpToListing ==
    dupPc = "done" =>
        LET sorted == checkDuplicates(SortByFile(resources))
        IN /\ { e.key : e \in Range(duplicateErrors) } = { e.key : e \in Range(sorted) }
           /\ \A f \in Files :
                UnorderedAll(MessagesIn(duplicateErrors, f))
                    = UnorderedAll(MessagesIn(sorted, f))

\* three files share a key and are not enumerated in ascending order: the
\* messages list the others in another order than the ascending enumeration
C11_Witness ==
    /\ dupPc = "done"
    /\ resources # SortByFile(resources)
    /\ \E f \in InputFiles :
        /\ Cardinality(SameName(f)) >= 2
        /\ MessagesOf(f) # MessagesIn(checkDuplicates(SortByFile(resources)), f)

----------------------------------------------------------------------------
(* URL Liveness Checker *)

\* a step of validateAllUrls that validates a URL which parses, and what the
\* step adds to the requests and to the errors
ChecksUrl == ui' = ui + 1 /\ ParsesAsUrl(NthUrl(urlContent, ui'))
NewRequests == SubSeq(requests', Len(requests) + 1, Len(requests'))
NewErrors == SubSeq(urlErrors', Len(urlErrors) + 1, Len(urlErrors'))

\* a request has failed when it was not answered with an ok status
Failed(req) == req.outcome # "ok"
Threw(req) == req.outcome \in {"error", "timeout"}

\* C17 as stated: for a URL that parses, with the liveness check enabled, the
\* first request is a HEAD request; if it fails (transport failure, timeout)
\* or is answered with a failure status, exactly one GET request follows; the
\* URL gets an error iff both requests failed or one ended in a transport or
\* timeout error; at most two requests are sent.
C17_Retry ==
    ChecksUrl =>
        /\ Len(NewRequests) \in {1, 2}
        /\ NewRequests[1].method = "HEAD"
        /\ Failed(NewRequests[1]) <=>
                (Len(NewRequests) = 2 /\ NewRequests[2].method = "GET")
        /\ NewErrors # <<>> <=>
                \/ \A i \in DOMAIN NewRequests : Failed(NewRequests[i])
                \/ \E i \in DOMAIN NewRequests : Threw(NewRequests[i])

C17_RetriesAfterAnyFailure == [][C17_Retry]_vars

\* C17 amended: for a URL that parses, with the liveness check enabled, the
\* first request is a HEAD request; exactly one GET request follows iff the
\* HEAD request is answered with a failure status, and none follows a HEAD
\* request that ended in a transport failure or a timeout; the URL gets
\* exactly one error iff the last request sent failed (a HEAD request that
\* threw, or a failure status on HEAD followed by a GET request that failed),
\* and none otherwise; at most two requests are sent.
C17_RetryOnStatus ==
    ChecksUrl =>
        /\ Len(NewRequests) \in {1, 2}
        /\ NewRequests[1].method = "HEAD"
        /\ NewRequests[1].outcome = "status" <=>
                (Len(NewRequests) = 2 /\ NewRequests[2].method = "GET")
        /\ \A i \in DOMAIN NewRequests : NewRequests[i].url = NthUrl(urlContent, ui')
        /\ Len(NewErrors) = IF Failed(NewRequests[Len(NewRequests)]) THEN 1 ELSE 0

C17_RetriesAfterFailureStatus == [][C17_RetryOnStatus]_vars

\* a record with a link: one URL whose HEAD request threw and was not
\* retried, one whose HEAD request got a failure status and whose GET request
\* was answered ok
C17_Witness ==
    /\ urlPc = "done"
    /\ urlErrors # <<>>
    /\ \E i \in DOMAIN requests :
        /\ requests[i].method = "HEAD" /\ Threw(requests[i])
        /\ i < Len(requests) => requests[i + 1].method = "HEAD"
    /\ \E i \in DOMAIN requests :
        /\ requests[i].method = "HEAD" /\ requests[i].outcome = "status"
        /\ i < Len(requests)
        /\ requests[i + 1].method = "GET" /\ requests[i + 1].outcome = "ok"

\* C18: a request that exceeds the timeout, the HEAD request as well as the
\* GET request, is reported as `request timed out` and never as `is not
\* accessible`; a transport failure that is no timeout is never reported as
\* `request timed out`.
C18_Report ==
    ChecksUrl =>
        \A i \in DOMAIN NewRequests :
            /\ NewRequests[i].outcome = "timeout" =>
                    /\ \E e \in Range(NewErrors) : e.what = "request timed out"
                    /\ \A e \in Range(NewErrors) : e.what # "is not accessible"
            /\ NewRequests[i].outcome = "error" =>
                    \A e \in Range(NewErrors) : e.what # "request timed out"

C18_TimeoutReportedAsTimeout == [][C18_Report]_vars

----------------------------------------------------------------------------
(* Validation Orchestrator *)

\* the files the Duplicate Detector flagged, and the result of a file
Flagged == { duplicateErrors[i].key : i \in DOMAIN duplicateErrors }
ResultOf(filePath) == results[FindResult(filePath)]
InvalidResults == { k \in DOMAIN results : ~results[k].valid }
ValidResults == { k \in DOMAIN results : results[k].valid }

\* a message of the URL validation
IsUrlMsg(m) == "label" \in DOMAIN m
IsSchemaMsg(m) == "path" \in DOMAIN m

\* the content parsed and passed the schema
PassedSchema(content) == content.json = "object" /\ validateSchema(content) = <<>>

\* C12: the Duplicate Detector is given only records that parsed and passed
\* schema validation: no record with a schema violation is among the resources
\* it is called with, and no message names such a file.
C12_DetectorInputPassedSchema ==
    /\ \A i \in DOMAIN resources : PassedSchema(ContentOf(resources[i].file))
    /\ \A i \in DOMAIN duplicateErrors :
        /\ PassedSchema(ContentOf(duplicateErrors[i].key))
        /\ \A j \in DOMAIN duplicateErrors[i].val :
            \A g \in Range(duplicateErrors[i].val[j].others) :
                PassedSchema(ContentOf(g))

\* C13 as stated: after the duplicate pass every flagged file has an invalid
\* result whose errors are exactly its duplicate messages, whether it was
\* valid or invalid after the first pass.
C13_FlaggedErrorsAreDuplicateMessages ==
    valPc = "done" =>
        \A f \in Flagged :
            /\ ~ResultOf(f).valid
            /\ ResultOf(f).errors = MapGet(duplicateErrors, f)

\* a round of the second pass: the result of the flagged file becomes invalid
\* with the duplicate messages for errors if it was valid, it is left as the
\* first pass made it if it was invalid, and no other result changes
C13_Round ==
    (valPc = "second" /\ vi' = vi + 1) =>
        LET e == duplicateErrors[vi + 1]
            k == FindResult(e.key)
        IN /\ k # 0
           /\ ~results'[k].valid
           /\ IF results[k].valid
              THEN results'[k] = [results[k] EXCEPT !.valid = FALSE, !.errors = e.val]
              ELSE results'[k] = results[k]
           /\ \A j \in DOMAIN results : j # k => results'[j] = results[j]
           /\ DOMAIN results' = DOMAIN results

\* C13 amended: after the duplicate pass every flagged file has an invalid
\* result; the errors of a file that was valid after the first pass are exactly
\* its duplicate messages, and a file that was already invalid keeps the errors
\* of the first pass, without the duplicate messages.
C13_FlaggedInvalidErrorsReplacedIfValid ==
    /\ [][C13_Round]_vars
    /\ [](valPc = "done" => \A f \in Flagged : ~ResultOf(f).valid)

\* two flagged files at the end: one shows its duplicate messages, the other
\* the errors of the first pass
C13_Witness ==
    /\ valPc = "done"
    /\ \E f \in Flagged : ResultOf(f).errors = MapGet(duplicateErrors, f)
    /\ \E f \in Flagged :
        /\ ResultOf(f).errors # MapGet(duplicateErrors, f)
        /\ \E i \in DOMAIN ResultOf(f).errors :
            IsUrlMsg(ResultOf(f).errors[i]) \/ ~IsKebabCase(f)

\* the corpus of the example: A and B pass the schema and have the same name,
\* C lacks `pricing`
C14_Example ==
    /\ Len(corpus) = 3
    /\ PassedSchema(corpus[1].content) /\ PassedSchema(corpus[2].content)
    /\ toLowerCase(corpus[1].content.name) = toLowerCase(corpus[2].content.name)
    /\ corpus[3].content.json = "object"
    /\ corpus[3].content.missing = {"pricing"}

\* C14: at the end of a run over a non-empty corpus the failed count is the
\* number of files whose final result is invalid and the passed count the
\* number whose final result is valid, so they add up to the number of files;
\* the exit status is non-zero iff some file is invalid, also when the run ends
\* in the handler of the last lines. For A, B with A's name, and C without
\* `pricing`: passed = 0, failed = 3.
C14_CountsAndExit ==
    /\ valPc = "done" =>
        /\ failCount = Cardinality(InvalidResults)
        /\ passCount = Cardinality(ValidResults)
        /\ passCount + failCount = Len(corpus)
        /\ Len(results) = Len(corpus)
        /\ valExit # 0 <=> InvalidResults # {}
        /\ C14_Example => (passCount = 0 /\ failCount = 3 /\ valExit = 1)
    /\ valPc = "crashed" => (valExit # 0 /\ InvalidResults # {})

\* the example, where A and B were valid after the first pass
C14_Witness ==
    /\ valPc = "done"
    /\ C14_Example
    /\ IsKebabCase(corpus[3].file)
    /\ \A k \in {1, 2} : results[k].errors = MapGet(duplicateErrors, results[k].file)
    /\ passCount = 0 /\ failCount = 3

\* a round of the first pass, the file it validates and what it adds
ValidatesFile == valPc = "first" /\ vi' = vi + 1
FileNow == corpus[vi + 1].file
ContentNow == corpus[vi + 1].content
ResultNow == results'[vi + 1]
ParseFails == ContentNow.json = "unparsable"
SchemaFails == ~ParseFails /\ validateSchema(ContentNow) # <<>>
NamingFails == validateFileName(FileNow) # <<>>

\* C15 as stated: a record with a structural error (parse failure, schema
\* violation or file-naming violation) is marked invalid and gets no further
\* check: no schema error is reported after a parse failure, and no request
\* is sent and no URL message reported for a record with a structural error.
C15_Stops ==
    (ValidatesFile /\ (ParseFails \/ SchemaFails \/ NamingFails)) =>
        /\ ~ResultNow.valid
        /\ ParseFails => \A i \in DOMAIN ResultNow.errors : ~IsSchemaMsg(ResultNow.errors[i])
        /\ requests' = requests
        /\ \A i \in DOMAIN ResultNow.errors : ~IsUrlMsg(ResultNow.errors[i])

C15_StructuralErrorStopsRecord == [][C15_Stops]_vars

\* what the round reports for a well-named file with the same content
UrlPart(outs) == urlValidation(ContentNow, ~skipUrlCheck, skipUrlCheck, outs)

C15_StopsOnParseOrSchema ==
    ValidatesFile =>
        /\ (ParseFails \/ SchemaFails \/ NamingFails) => ~ResultNow.valid
        /\ ParseFails =>
            /\ ResultNow.errors = <<FileMsg("JSON Parse Error", FileNow)>>
            /\ requests' = requests
        /\ SchemaFails =>
            /\ ResultNow.errors = validateFileName(FileNow) \o validateSchema(ContentNow)
            /\ requests' = requests
        /\ (NamingFails /\ ~ParseFails /\ ~SchemaFails) =>
            \E outs \in [{1} -> ServerBehaviours] :
                /\ ResultNow.errors = validateFileName(FileNow) \o UrlPart(outs).errors
                /\ requests' = requests \o UrlPart(outs).requests
                /\ (~skipUrlCheck /\ ParsesAsUrl(ContentNow.url)) =>
                        /\ requests' # requests
                        /\ Last(requests').url = ContentNow.url

\* C15 amended: a parse failure marks the record invalid with the parse error
\* alone, without schema validation and without a request; a schema violation
\* marks it invalid with the file-naming and schema errors, without a request
\* and without a URL message; a file-naming violation marks it invalid but
\* stops nothing: the schema is validated and, when the liveness check is
\* enabled, the URLs of the record are probed as for a well-named file.
C15_ParseOrSchemaErrorStopsRecord == [][C15_StopsOnParseOrSchema]_vars

\* a badly named file that passes the schema: invalid, and its URL was probed;
\* before it, a file that fails the schema and was not probed
C15_Witness ==
    /\ ~skipUrlCheck
    /\ Len(results) = 2
    /\ validateSchema(corpus[1].content) # <<>>
    /\ ~IsKebabCase(corpus[2].file)
    /\ PassedSchema(corpus[2].content)
    /\ ~results[2].valid
    /\ requests # <<>>
    /\ \A i \in DOMAIN requests : requests[i].url = corpus[2].content.url

\* C16: with SKIP_URL_CHECK=true no request is sent, and no result holds an
\* error or a warning about a URL, whatever the URLs of the records are and
\* however their servers behave.
C16_BypassNoErrorNoRequest ==
    skipUrlCheck =>
        /\ requests = <<>>
        /\ \A k \in DOMAIN results :
            /\ \A i \in DOMAIN results[k].errors : ~IsUrlMsg(results[k].errors[i])
            /\ results[k].warnings = <<>>

\* under the bypass, a record whose url does not parse and a record with a
\* plain http url are both valid at the end
C16_Witness ==
    /\ skipUrlCheck
    /\ valPc = "done"
    /\ \E k \in DOMAIN results :
        /\ results[k].valid
        /\ ~ParsesAsUrl(corpus[k].content.url)
    /\ \E k \in DOMAIN results :
        /\ results[k].valid
        /\ StartsWithHttp(corpus[k].content.url)

\* C20: in the final report the warned count does not exceed the passed
\* count: the files counted as warned are the files with warnings whose final
\* result is valid, also after the duplicate pass.
C20_WarnedFilesAreValid ==
    valPc = "done" =>
        /\ warningCount <= passCount
        /\ warningCount =
            Cardinality({ k \in ValidResults : Len(results[k].warnings) > 0 })

----------------------------------------------------------------------------
(* Remote Index fetch loop *)

\* the response to the last query of the log
LastResponse == Query(Last(fetchLog))

\* the results of all the pages of the store, in the order of the pages
RECURSIVE AllResults(_)
AllResults(p) ==
    IF p > Len(store) THEN <<>> ELSE Query(p).results \o AllResults(p + 1)

\* a round of the loop queries the cursor of the last response, which is a
\* page not queried before
C19_Round ==
    fetchLog' # fetchLog =>
        /\ fetchLog' = Append(fetchLog, IF fetchLog = <<>> THEN NoCursor
                                        ELSE LastResponse.next_cursor)
        /\ fetchLog # <<>> => LastResponse.next_cursor # NoCursor
        /\ \A i \in DOMAIN fetchLog : fetchLog[i] # Last(fetchLog')

\* the loop has ended without a failure
Fetched == fetchPc = "done"

====
